---- MODULE Spec2Model ----
(***************************************************************************)
(* The `upgrade` command of the Nuxt CLI (src/commands/upgrade.ts) as a    *)
(* state machine.  One run of `run(ctx)` is modelled: every `await` of the *)
(* handler is one action, the collaborators' answers (package-manager      *)
(* detection, manifest, prompts, installer, configuration loader) are      *)
(* drawn from small sets, and `log` records the calls the run makes in     *)
(* the order it makes them.                                                *)
(***************************************************************************)
EXTENDS Naturals, Sequences, FiniteSets, TLC

VARIABLES
  pc,                 \* position of run() (the statement it is about to execute)
  force,              \* ctx.args.force: a JS value, see JsValues
  channel,            \* ctx.args.channel
  fs,                 \* the project directory: resolved path -> kind of entry
  packageManager,     \* result of detectPackageManager
  currentVersion,     \* const currentVersion
  pkg,                \* const pkg (the manifest, or null)
  nuxtDependencyType, \* const nuxtDependencyType
  packagesToUpdate,   \* const packagesToUpdate
  npmPackages,        \* const npmPackages
  nuxtVersion,        \* const nuxtVersion
  toRemove,           \* const toRemove
  lockFile,           \* const lockFile
  buildDir,           \* let buildDir
  upgradedVersion,    \* const upgradedVersion
  installCall,        \* the arguments addDependency was called with
  config,             \* what loading the kit and the configuration yielded
  cleanupCall,        \* the arguments cleanupNuxtDirs was called with, and its outcome
  commits,            \* const commitA, commitB of the report
  prompts,            \* the prompts shown so far, with the human's answer
  flag,               \* history: the force flag as given on the command line
  fs0,                \* history: the project directory when the run started
  exitCode,           \* process exit status, "running" while the run goes on
  log                 \* the calls made so far, in order

vars == <<pc, force, channel, fs, packageManager, currentVersion, pkg,
          nuxtDependencyType, packagesToUpdate, npmPackages, nuxtVersion,
          toRemove, lockFile, buildDir, upgradedVersion, installCall,
          config, cleanupCall, commits, prompts, flag, fs0, exitCode, log>>

----------------------------------------------------------------------------
(* Bounds of the model *)

MaxCandidates == 2      \* longest lockFile candidate array a descriptor carries
MaxPackages == 2        \* longest list of companion packages given to the resolver

----------------------------------------------------------------------------
(* JavaScript values *)

\* The JS values the force flag or a prompt result can be are written
\* "undefined", "true", "false" and "symbol" (the cancel symbol a cancelled
\* prompt resolves to).  JS truthiness of those values: `if (ctx.args.force)`
Truthy(v) == v \in {"true", "symbol"}

\* typeof v === 'string' for the answers of the select prompt
IsString(v) == v \notin {"undefined", "symbol"}

Undefined == "undefined"

----------------------------------------------------------------------------
(* The project directory *)

Cwd == "/project"

\* pathe's resolve(cwd, file) for a relative file name
resolve(cwd, file) == <<cwd, file>>

LockNames == {"bun.lockb", "bun.lock"}

Names == {"node_modules"} \cup LockNames

Paths == {resolve(Cwd, n) : n \in Names}

\* existsSync(path)
existsSync(f, path) == path \in DOMAIN f /\ f[path] # "absent"

\* The project directories a run can start in.  A path is "absent", a
\* directory "dir", a regular file with content "data" or a zero-length
\* regular file "empty".
InitialFs ==
  {f \in [Paths -> {"absent", "dir", "data"}] :
     /\ f[resolve(Cwd, "node_modules")] \in {"absent", "dir"}
     /\ \A n \in LockNames : f[resolve(Cwd, n)] \in {"absent", "data"}}

----------------------------------------------------------------------------
(* Collaborators' answers *)

\* nypm's descriptor: lockFile is string | string[] | undefined
SeqsUpTo(S, n) == UNION {[1..k -> S] : k \in 1..n}

LockFileCandidates ==
  {[kind |-> "undefined", str |-> "", arr |-> <<>>]}
    \cup {[kind |-> "string", str |-> n, arr |-> <<>>] : n \in LockNames}
    \cup {[kind |-> "array", str |-> "", arr |-> a] :
            a \in SeqsUpTo(LockNames, MaxCandidates)}

NoPackageManager == [found |-> FALSE, lockFile |-> [kind |-> "undefined", str |-> "", arr |-> <<>>]]

PackageManagers == {[found |-> TRUE, lockFile |-> c] : c \in LockFileCandidates}

\* What detectPackageManager can return.
Detections == PackageManagers \cup {NoPackageManager}

\* What readPackageJSON('nuxt') yields: it throws, or the version field of the
\* installed package ("" when the field is missing).
CurrentVersionReads == {"throw", "", "3.9.0"}
UpgradedVersionReads == {"throw", "", "3.9.0", "3.10.0"}

\* Version ranges a manifest can declare; "" is a legal (and falsy) range.
Ranges == {"", "^3.0.0"}

EmptyMap == [n \in {} |-> ""]

MapsOver(names, ranges) == UNION {[S -> ranges] : S \in SUBSET names}

NoManifest == [present |-> FALSE, dependencies |-> EmptyMap, devDependencies |-> EmptyMap]

\* Manifests that declare nuxt under exactly one of the two maps.
NuxtManifests ==
  {[present |-> TRUE, dependencies |-> [n \in {"nuxt"} |-> "^3.0.0"], devDependencies |-> EmptyMap],
   [present |-> TRUE, dependencies |-> EmptyMap, devDependencies |-> [n \in {"nuxt"} |-> "^3.0.0"]]}

\* The manifests a run reads.
Manifests == {NoManifest} \cup NuxtManifests

\* Every manifest over nuxt and one companion package, each absent from a
\* map or in it with any of the ranges.
AllManifests ==
  {NoManifest} \cup
  {[present |-> TRUE, dependencies |-> d, devDependencies |-> v] :
     d \in MapsOver({"nuxt", "@nuxt/kit"}, Ranges),
     v \in MapsOver({"nuxt", "@nuxt/kit"}, Ranges)}

Channels == {"stable", "nightly"}

\* What the human does at a prompt.
ConfirmAnswers == {"yes", "no", "cancel"}
SelectAnswers == {"3.x", "4.x", "cancel"}

\* consola.prompt's result for a confirm prompt with the given default: the
\* answer as a boolean, and for a cancelled prompt the cancel symbol or the
\* default, depending on the consola release.
promptConfirm(answer, default) ==
  CASE answer = "yes" -> {"true"}
    [] answer = "no" -> {"false"}
    [] OTHER -> {"symbol", default}

\* consola.prompt's result for a select prompt: the option chosen, and the
\* cancel symbol for a cancelled prompt (a release that substitutes the
\* default for it yields what choosing the default yields).
promptSelect(answer) == IF answer = "cancel" THEN "symbol" ELSE answer

\* What loading the kit and the configuration can yield: the build directory
\* of the configuration, or a rejection of loadKit or of loadNuxtConfig.
BuildDirs == {"/project/.build"}
ConfigFailures == {"loadKit:throw", "loadNuxtConfig:throw"}
ConfigOutcomes == ConfigFailures \cup BuildDirs

----------------------------------------------------------------------------
(* Pure functions of upgrade.ts *)

\* map?.[p] as a condition: the key is there and its value is truthy
TruthyAt(map, p) == p \in DOMAIN map /\ map[p] # ""

\* getNuxtVersion: pkg.version || null, null when the read throws
getNuxtVersion(read) == IF read \in {"throw", ""} THEN "null" ELSE read

\* (await getNuxtVersion(cwd)) || '[unknown]'
orUnknown(v) == IF v = "null" THEN "[unknown]" ELSE v

checkNuxtDependencyType(m) ==
  IF TruthyAt(m.dependencies, "nuxt") THEN "dependencies"
  ELSE IF TruthyAt(m.devDependencies, "nuxt") THEN "devDependencies"
  ELSE "dependencies"

corePackages ==
  <<"@nuxt/kit", "@nuxt/schema", "@nuxt/vite-builder", "@nuxt/webpack-builder",
    "@nuxt/rspack-builder">>

RECURSIVE filter(_, _)
\* corePackages.filter(p => pkg.dependencies?.[p] || pkg.devDependencies?.[p])
filter(ps, m) ==
  IF ps = <<>> THEN <<>>
  ELSE LET rest == filter(Tail(ps), m)
       IN IF TruthyAt(m.dependencies, Head(ps)) \/ TruthyAt(m.devDependencies, Head(ps))
          THEN <<Head(ps)>> \o rest
          ELSE rest

nuxtVersionTags == ("3.x" :> "3x") @@ ("4.x" :> "latest")

\* the 4.x line taken when the prompt yields no choice
getNightlyVersion_DefaultsToLatest(packageNames, result) ==
  LET nv == IF IsString(result) THEN result ELSE "4.x"
  IN [npmPackages |-> [i \in DOMAIN packageNames |->
                         <<packageNames[i], "@npm:", packageNames[i], "-nightly@",
                           nuxtVersionTags[nv]>>],
      nuxtVersion |-> nv]

\* getNightlyVersion, given the select prompt's result
getNightlyVersion(packageNames, result) ==
  LET nv == IF IsString(result) THEN result ELSE "3.x"
  IN [npmPackages |-> [i \in DOMAIN packageNames |->
                         <<packageNames[i], "@npm:", packageNames[i], "-nightly@",
                           nuxtVersionTags[nv]>>],
      nuxtVersion |-> nv]

\* getRequiredNewVersion on a channel other than nightly
getStableVersion(packageNames) ==
  [npmPackages |-> [i \in DOMAIN packageNames |-> <<packageNames[i], "@latest">>],
   nuxtVersion |-> "3"]

RECURSIVE find(_, _)
\* lockFiles?.find(file => existsSync(resolve(cwd, file)))
find(files, f) ==
  IF files = <<>> THEN Undefined
  ELSE IF existsSync(f, resolve(Cwd, Head(files))) THEN Head(files)
  ELSE find(Tail(files), f)

\* the last existing candidate instead of the first
normaliseLockFile_LastMatch(f, lockFiles) ==
  LET list == IF lockFiles.kind = "string" THEN <<lockFiles.str>> ELSE lockFiles.arr
      hits == {i \in DOMAIN list : existsSync(f, resolve(Cwd, list[i]))}
  IN IF lockFiles.kind = "undefined" \/ hits = {} THEN Undefined
     ELSE list[CHOOSE i \in hits : \A j \in hits : j <= i]

\* lines 205-217
normaliseLockFile(f, lockFiles) ==
  LET list == IF lockFiles.kind = "string" THEN <<lockFiles.str>> ELSE lockFiles.arr
  IN IF lockFiles.kind = "undefined" THEN Undefined ELSE find(list, f)

\* the elements of a sequence
Range(s) == {s[i] : i \in DOMAIN s}

----------------------------------------------------------------------------
(* Collaborators of this repository that upgrade.ts imports (utils/fs,      *)
(* utils/nuxt): their effect on the project directory                       *)

\* fs with every path of S removed
removeAll(f, S) == [p \in DOMAIN f |-> IF p \in S THEN "absent" ELSE f[p]]

\* The targets of a removal that are on disk.
existing(f, targets) == {p \in targets : existsSync(f, p)}

\* rmRecursive(paths) when the paths of `blocked` cannot be removed: a path
\* that does not exist is skipped; the others are removed, and the call
\* throws when some path is blocked, having removed the paths of `done`.
rmRecursiveThrows(blocked) == blocked # {}
rmRecursive(f, targets, blocked, done) ==
  IF rmRecursiveThrows(blocked) THEN removeAll(f, done) ELSE removeAll(f, targets)

\* touchFile(path): creates the file, empty, when it is not there
touchFile(f, path) == IF existsSync(f, path) THEN f ELSE [f EXCEPT ![path] = "empty"]

\* cleanupNuxtDirs(cwd, buildDir): best-effort, it resolves whether or not
\* the directory could be removed
cleanupNuxtDirsThrows(removed) == FALSE

\* nuxtVersionToGitIdentifier(version): an identifier, or none when the
\* version does not map to one
NoIdentifier == <<>>
GitIdentifiers(version) == {NoIdentifier, <<"v", version>>}

----------------------------------------------------------------------------
(* run(ctx) *)

Forces == {"undefined", "true", "false"}

NoInstall == [called |-> FALSE, packages |-> <<>>, dev |-> FALSE]

NoCleanup == [called |-> FALSE, dir |-> "", removed |-> FALSE]

NoCommits == [mapped |-> FALSE, a |-> NoIdentifier, b |-> NoIdentifier]

\* The state when run() is entered, in one of the project directories dirs.
Start(dirs) ==
  /\ pc = "detect"
  /\ force \in Forces
  /\ channel \in Channels
  /\ fs \in dirs
  /\ packageManager = NoPackageManager
  /\ currentVersion = "[unknown]"
  /\ pkg = NoManifest
  /\ nuxtDependencyType = "dependencies"
  /\ packagesToUpdate = <<>>
  /\ npmPackages = <<>>
  /\ nuxtVersion = ""
  /\ toRemove = <<>>
  /\ lockFile = Undefined
  /\ buildDir = ".nuxt"
  /\ upgradedVersion = "[unknown]"
  /\ installCall = NoInstall
  /\ config = "none"
  /\ cleanupCall = NoCleanup
  /\ commits = NoCommits
  /\ prompts = <<>>
  /\ flag = force
  /\ fs0 = fs
  /\ exitCode = "running"
  /\ log = <<>>

\* What the try block of lines 161-165 calls before it ends or is left.
loadEvents(outcome) ==
  CASE outcome = "loadKit:throw" -> <<"loadKit", "catch">>
    [] outcome = "loadNuxtConfig:throw" -> <<"loadKit", "loadNuxtConfig", "catch">>
    [] OTHER -> <<"loadKit", "loadNuxtConfig">>

\* An awaited call rejected (or a statement threw): the rejection leaves run()
\* and the process ends with a reported error.
Throw(events) ==
  /\ pc' = "aborted"
  /\ exitCode' = "1"
  /\ log' = log \o events \o <<"throw">>

\* Mutant: the missing-package-manager branch reports the error and goes on.
DetectPackageManager_NoExit(pms) ==
  /\ pc = "detect"
  /\ \E pm \in pms :
       /\ packageManager' = pm
       /\ log' = log \o (IF pm.found THEN <<"detectPackageManager">>
                         ELSE <<"detectPackageManager", "consola.error:pm">>)
       /\ pc' = "currentVersion"
  /\ UNCHANGED <<force, channel, flag, fs0, config, cleanupCall, commits, fs,
                 currentVersion, pkg, nuxtDependencyType, packagesToUpdate,
                 npmPackages, nuxtVersion, toRemove, lockFile, buildDir,
                 upgradedVersion, installCall, prompts, exitCode>>

\* lines 93-103: detectPackageManager, and the exit when there is none
DetectPackageManager(pms) ==
  /\ pc = "detect"
  /\ \E pm \in pms :
       /\ packageManager' = pm
       /\ IF ~pm.found
          THEN /\ log' = log \o <<"detectPackageManager", "consola.error:pm", "process.exit">>
               /\ exitCode' = "1"
               /\ pc' = "exited"
          ELSE /\ log' = log \o <<"detectPackageManager">>
               /\ exitCode' = exitCode
               /\ pc' = "currentVersion"
  /\ UNCHANGED <<force, channel, flag, fs0, config, cleanupCall, commits, fs,
                 currentVersion, pkg, nuxtDependencyType, packagesToUpdate,
                 npmPackages, nuxtVersion, toRemove, lockFile, buildDir,
                 upgradedVersion, installCall, prompts>>

\* lines 105-107
ReadCurrentVersion ==
  /\ pc = "currentVersion"
  /\ \E read \in CurrentVersionReads :
       currentVersion' = orUnknown(getNuxtVersion(read))
  /\ log' = log \o <<"getNuxtVersion">>
  /\ pc' = "manifest"
  /\ UNCHANGED <<force, channel, flag, fs0, config, cleanupCall, commits, fs,
                 packageManager, pkg, nuxtDependencyType, packagesToUpdate,
                 npmPackages, nuxtVersion, toRemove, lockFile, buildDir,
                 upgradedVersion, installCall, prompts, exitCode>>

\* lines 109-115
ReadManifest(manifests) ==
  /\ pc = "manifest"
  /\ \E m \in manifests :
       /\ pkg' = m
       /\ nuxtDependencyType' = IF m.present THEN checkNuxtDependencyType(m) ELSE "dependencies"
       /\ packagesToUpdate' = IF m.present THEN filter(corePackages, m) ELSE <<>>
  /\ log' = log \o <<"readPackageJSON">>
  /\ pc' = "resolve"
  /\ UNCHANGED <<force, channel, flag, fs0, config, cleanupCall, commits, fs,
                 packageManager, currentVersion, npmPackages, nuxtVersion,
                 toRemove, lockFile, buildDir, upgradedVersion, installCall,
                 prompts, exitCode>>

\* lines 117-118 with getRequiredNewVersion (61-67) and getNightlyVersion (44-59)
ResolveVersion ==
  /\ pc = "resolve"
  /\ LET packageNames == <<"nuxt">> \o packagesToUpdate
     IN IF channel = "nightly"
        THEN \E answer \in SelectAnswers :
               LET result == promptSelect(answer)
                   r == getNightlyVersion(packageNames, result)
               IN /\ npmPackages' = r.npmPackages
                  /\ nuxtVersion' = r.nuxtVersion
                  /\ prompts' = Append(prompts, [type |-> "select", default |-> "3.x",
                                                 answer |-> answer, result |-> result])
                  /\ log' = log \o <<"prompt:select", "getRequiredNewVersion">>
        ELSE LET r == getStableVersion(packageNames)
             IN /\ npmPackages' = r.npmPackages
                /\ nuxtVersion' = r.nuxtVersion
                /\ prompts' = prompts
                /\ log' = log \o <<"getRequiredNewVersion">>
  /\ pc' = "lockFile"
  /\ UNCHANGED <<force, channel, flag, fs0, config, cleanupCall, commits, fs,
                 packageManager, currentVersion, pkg, nuxtDependencyType,
                 packagesToUpdate, toRemove, lockFile, buildDir,
                 upgradedVersion, installCall, exitCode>>

\* Mutant: the targets are removed as soon as they are known, before the
\* force decision.
LocateLockFile_RemovesEagerly ==
  /\ pc = "lockFile"
  /\ LET found == normaliseLockFile(fs, packageManager.lockFile)
         targets == IF found # Undefined THEN <<"node_modules", found>> ELSE <<"node_modules">>
     IN /\ lockFile' = found
        /\ toRemove' = targets
        /\ fs' = removeAll(fs, {resolve(Cwd, file) : file \in Range(targets)})
        /\ log' = log \o <<"normaliseLockFile", "rmRecursive">>
  /\ pc' = "force"
  /\ UNCHANGED <<force, channel, flag, fs0, config, cleanupCall, commits,
                 packageManager, currentVersion, pkg, nuxtDependencyType,
                 packagesToUpdate, npmPackages, nuxtVersion, buildDir,
                 upgradedVersion, installCall, prompts, exitCode>>

\* Mutant: a missing lock file ends the run.
LocateLockFile_ThrowsWhenMissing ==
  /\ pc = "lockFile"
  /\ LET found == normaliseLockFile(fs, packageManager.lockFile)
     IN /\ lockFile' = found
        /\ toRemove' = IF found # Undefined THEN <<"node_modules", found>> ELSE <<"node_modules">>
        /\ IF found = Undefined
           THEN Throw(<<"normaliseLockFile", "consola.error:lock">>)
           ELSE /\ log' = log \o <<"normaliseLockFile">>
                /\ pc' = "force"
                /\ exitCode' = exitCode
  /\ UNCHANGED <<force, channel, flag, fs0, config, cleanupCall, commits, fs,
                 packageManager, currentVersion, pkg, nuxtDependencyType,
                 packagesToUpdate, npmPackages, nuxtVersion, buildDir,
                 upgradedVersion, installCall, prompts>>

\* lines 120-130 with normaliseLockFile (205-218)
LocateLockFile ==
  /\ pc = "lockFile"
  /\ LET found == normaliseLockFile(fs, packageManager.lockFile)
     IN /\ lockFile' = found
        /\ toRemove' = IF found # Undefined THEN <<"node_modules", found>> ELSE <<"node_modules">>
        /\ log' = log \o (IF found = Undefined
                          THEN <<"normaliseLockFile", "consola.error:lock">>
                          ELSE <<"normaliseLockFile">>)
  /\ pc' = "force"
  /\ UNCHANGED <<force, channel, flag, fs0, config, cleanupCall, commits, fs,
                 packageManager, currentVersion, pkg, nuxtDependencyType,
                 packagesToUpdate, npmPackages, nuxtVersion, buildDir,
                 upgradedVersion, installCall, prompts, exitCode>>

\* Mutant: the confirm prompt is shown whatever the flag says.
DecideForce_AlwaysPrompts ==
  /\ pc = "force"
  /\ \E answer \in ConfirmAnswers : \E result \in promptConfirm(answer, "true") :
       /\ force' = result
       /\ prompts' = Append(prompts, [type |-> "confirm", default |-> "true",
                                      answer |-> answer, result |-> result])
       /\ log' = log \o <<"prompt:confirm", "if:force">>
  /\ pc' = IF Truthy(force') THEN "rm" ELSE "install"
  /\ UNCHANGED <<channel, flag, fs0, config, cleanupCall, commits, fs,
                 packageManager, currentVersion, pkg, nuxtDependencyType,
                 packagesToUpdate, npmPackages, nuxtVersion, toRemove,
                 lockFile, buildDir, upgradedVersion, installCall, exitCode>>

\* lines 131-143: the confirm prompt when the flag is absent, then the test
\* of ctx.args.force
DecideForce ==
  /\ pc = "force"
  /\ IF force = Undefined
     THEN \E answer \in ConfirmAnswers : \E result \in promptConfirm(answer, "true") :
            /\ force' = result
            /\ prompts' = Append(prompts, [type |-> "confirm", default |-> "true",
                                           answer |-> answer, result |-> result])
            /\ log' = log \o <<"prompt:confirm", "if:force">>
     ELSE /\ force' = force
          /\ prompts' = prompts
          /\ log' = log \o <<"if:force">>
  /\ pc' = IF Truthy(force') THEN "rm" ELSE "install"
  /\ UNCHANGED <<channel, flag, fs0, config, cleanupCall, commits, fs,
                 packageManager, currentVersion, pkg, nuxtDependencyType,
                 packagesToUpdate, npmPackages, nuxtVersion, toRemove,
                 lockFile, buildDir, upgradedVersion, installCall, exitCode>>

\* Mutant: a failed removal is swallowed and the run goes on.
RemoveTargets_SwallowsFailure ==
  /\ pc = "rm"
  /\ LET targets == {resolve(Cwd, file) : file \in Range(toRemove)}
     IN \E blocked \in SUBSET existing(fs, targets) :
        \E done \in SUBSET (targets \ blocked) :
          fs' = rmRecursive(fs, targets, blocked, done)
  /\ log' = log \o <<"rmRecursive">>
  /\ pc' = IF lockFile # Undefined THEN "touch" ELSE "install"
  /\ UNCHANGED <<force, channel, flag, fs0, config, cleanupCall, commits,
                 packageManager, currentVersion, pkg, nuxtDependencyType,
                 packagesToUpdate, npmPackages, nuxtVersion, toRemove,
                 lockFile, buildDir, upgradedVersion, installCall, prompts,
                 exitCode>>

\* await rmRecursive(targets): the call returns, or rejects and leaves run()
RemoveTargetsOf(targets) ==
  /\ pc = "rm"
  /\ \E blocked \in SUBSET existing(fs, targets) :
     \E done \in SUBSET (targets \ blocked) :
       /\ fs' = rmRecursive(fs, targets, blocked, done)
       /\ IF rmRecursiveThrows(blocked)
          THEN Throw(<<"rmRecursive">>)
          ELSE /\ log' = log \o <<"rmRecursive">>
               /\ pc' = IF lockFile # Undefined THEN "touch" ELSE "install"
               /\ exitCode' = exitCode
  /\ UNCHANGED <<force, channel, flag, fs0, config, cleanupCall, commits,
                 packageManager, currentVersion, pkg, nuxtDependencyType,
                 packagesToUpdate, npmPackages, nuxtVersion, toRemove,
                 lockFile, buildDir, upgradedVersion, installCall, prompts>>

\* Mutant: the reset removes every lock file the project may hold, not the
\* one that was located.
RemoveTargets_AllLockFiles == RemoveTargetsOf(Paths)

\* line 144: rmRecursive(toRemove.map(file => resolve(cwd, file)))
RemoveTargets == RemoveTargetsOf({resolve(Cwd, file) : file \in Range(toRemove)})

\* Mutant: the lock file is not created again after the removal.
TouchLockFile_Skipped ==
  /\ pc = "touch"
  /\ pc' = "install"
  /\ UNCHANGED <<force, channel, flag, fs0, config, cleanupCall, commits, fs,
                 packageManager, currentVersion, pkg, nuxtDependencyType,
                 packagesToUpdate, npmPackages, nuxtVersion, toRemove,
                 lockFile, buildDir, upgradedVersion, installCall, prompts,
                 exitCode, log>>

\* the placeholder written at the first candidate, not at the located file
TouchLockFile_FirstCandidate ==
  /\ pc = "touch"
  /\ LET d == packageManager.lockFile
         first == IF d.kind = "string" THEN d.str ELSE d.arr[1]
     IN fs' = touchFile(fs, resolve(Cwd, first))
  /\ log' = log \o <<"touchFile">>
  /\ pc' = "install"
  /\ UNCHANGED <<force, channel, flag, fs0, config, cleanupCall, commits, packageManager,
                 currentVersion, pkg, nuxtDependencyType, packagesToUpdate, npmPackages,
                 nuxtVersion, toRemove, lockFile, buildDir, upgradedVersion, installCall,
                 prompts, exitCode>>

\* lines 145-147
TouchLockFile ==
  /\ pc = "touch"
  /\ fs' = touchFile(fs, resolve(Cwd, lockFile))
  /\ log' = log \o <<"touchFile">>
  /\ pc' = "install"
  /\ UNCHANGED <<force, channel, flag, fs0, config, cleanupCall, commits,
                 packageManager, currentVersion, pkg, nuxtDependencyType,
                 packagesToUpdate, npmPackages, nuxtVersion, toRemove,
                 lockFile, buildDir, upgradedVersion, installCall, prompts,
                 exitCode>>

\* Mutant: a rejected addDependency is swallowed and the run goes on.
Install_IgnoresFailure ==
  /\ pc = "install"
  /\ installCall' = [called |-> TRUE, packages |-> npmPackages,
                     dev |-> IF nuxtDependencyType = "devDependencies" THEN TRUE ELSE FALSE]
  /\ \E ok \in BOOLEAN :
       IF ok
       THEN /\ fs' = [fs EXCEPT ![resolve(Cwd, "node_modules")] = "dir"]
            /\ log' = log \o <<"addDependency", "addDependency:ok">>
       ELSE /\ fs' = fs
            /\ log' = log \o <<"addDependency">>
  /\ pc' = "cleanup"
  /\ UNCHANGED <<force, channel, flag, fs0, config, cleanupCall, commits,
                 packageManager, currentVersion, pkg, nuxtDependencyType,
                 packagesToUpdate, npmPackages, nuxtVersion, toRemove,
                 lockFile, buildDir, upgradedVersion, prompts, exitCode>>

\* a rejected install tried again
Install_RetriesOnFailure ==
  /\ pc = "install"
  /\ installCall' = [called |-> TRUE, packages |-> npmPackages,
                     dev |-> IF nuxtDependencyType = "devDependencies" THEN TRUE ELSE FALSE]
  /\ \E ok \in BOOLEAN :
       IF ok
       THEN /\ fs' = [fs EXCEPT ![resolve(Cwd, "node_modules")] = "dir"]
            /\ log' = log \o <<"addDependency", "addDependency:ok">>
            /\ pc' = "cleanup"
       ELSE /\ fs' = fs
            /\ log' = log \o <<"addDependency">>
            /\ pc' = "install"
  /\ UNCHANGED <<force, channel, flag, fs0, config, cleanupCall, commits, packageManager,
                 currentVersion, pkg, nuxtDependencyType, packagesToUpdate, npmPackages,
                 nuxtVersion, toRemove, lockFile, buildDir, upgradedVersion, prompts,
                 exitCode>>

\* lines 150-157: addDependency, whose rejection leaves run()
Install ==
  /\ pc = "install"
  /\ installCall' = [called |-> TRUE, packages |-> npmPackages,
                     dev |-> IF nuxtDependencyType = "devDependencies" THEN TRUE ELSE FALSE]
  /\ \E ok \in BOOLEAN :
       IF ok
       THEN /\ fs' = [fs EXCEPT ![resolve(Cwd, "node_modules")] = "dir"]
            /\ log' = log \o <<"addDependency", "addDependency:ok">>
            /\ pc' = "cleanup"
            /\ exitCode' = exitCode
       ELSE /\ fs' = fs
            /\ Throw(<<"addDependency">>)
  /\ UNCHANGED <<force, channel, flag, fs0, config, cleanupCall, commits,
                 packageManager, currentVersion, pkg, nuxtDependencyType,
                 packagesToUpdate, npmPackages, nuxtVersion, toRemove,
                 lockFile, buildDir, upgradedVersion, prompts>>

\* lines 159-169 with the outcomes that fall back to '.nuxt' and the removal
\* results on which cleanupNuxtDirs rejects
CleanBuildArtifactsOf(defaulted, fatal) ==
  /\ pc = "cleanup"
  /\ \E outcome \in ConfigOutcomes :
       /\ config' = outcome
       /\ buildDir' = IF outcome \in defaulted THEN ".nuxt" ELSE outcome
       /\ \E removed \in BOOLEAN :
            /\ cleanupCall' = [called |-> TRUE, dir |-> buildDir', removed |-> removed]
            /\ IF removed \in fatal
               THEN Throw(loadEvents(outcome) \o <<"cleanupNuxtDirs">>)
               ELSE /\ log' = log \o loadEvents(outcome) \o <<"cleanupNuxtDirs">>
                    /\ pc' = "upgradedVersion"
                    /\ exitCode' = exitCode
  /\ UNCHANGED <<force, channel, flag, fs0, commits, fs, packageManager,
                 currentVersion, pkg, nuxtDependencyType, packagesToUpdate,
                 npmPackages, nuxtVersion, toRemove, lockFile,
                 upgradedVersion, installCall, prompts>>

\* cleanupNuxtDirs rejecting when the directory cannot be removed
CleanBuildArtifacts_AbortsOnRemovalFailure == CleanBuildArtifactsOf(ConfigFailures, {FALSE})

\* the build directory of the configuration never used
CleanBuildArtifacts_IgnoresConfig == CleanBuildArtifactsOf(ConfigOutcomes, {})

\* lines 159-169: the build directory ('.nuxt' when the kit or the
\* configuration cannot be loaded), then cleanupNuxtDirs, which removes the
\* directory or fails to
CleanBuildArtifacts ==
  CleanBuildArtifactsOf(ConfigFailures, {removed \in BOOLEAN : cleanupNuxtDirsThrows(removed)})

\* lines 171-173
ReadUpgradedVersion ==
  /\ pc = "upgradedVersion"
  /\ \E read \in UpgradedVersionReads :
       upgradedVersion' = orUnknown(getNuxtVersion(read))
  /\ log' = log \o <<"getNuxtVersion">>
  /\ pc' = "report"
  /\ UNCHANGED <<force, channel, flag, fs0, config, cleanupCall, commits, fs,
                 packageManager, currentVersion, pkg, nuxtDependencyType,
                 packagesToUpdate, npmPackages, nuxtVersion, toRemove,
                 lockFile, buildDir, installCall, prompts, exitCode>>

\* the changelog printed as soon as one of the two versions maps
Report_LinksOnEitherCommit ==
  /\ pc = "report"
  /\ IF upgradedVersion = "[unknown]"
     THEN log' = log /\ commits' = commits
     ELSE IF upgradedVersion = currentVersion
     THEN log' = log \o <<"success:latest">> /\ commits' = commits
     ELSE IF currentVersion = "[unknown]"
     THEN log' = log \o <<"success:upgraded">> /\ commits' = commits
     ELSE \E commitA \in GitIdentifiers(currentVersion) :
          \E commitB \in GitIdentifiers(upgradedVersion) :
            /\ commits' = [mapped |-> TRUE, a |-> commitA, b |-> commitB]
            /\ log' = log \o (IF commitA # NoIdentifier \/ commitB # NoIdentifier
                              THEN <<"success:upgraded", "info:changelog">>
                              ELSE <<"success:upgraded">>)
  /\ pc' = "done"
  /\ exitCode' = "0"
  /\ UNCHANGED <<force, channel, flag, fs0, config, cleanupCall, fs, packageManager,
                 currentVersion, pkg, nuxtDependencyType, packagesToUpdate, npmPackages,
                 nuxtVersion, toRemove, lockFile, buildDir, upgradedVersion, installCall,
                 prompts>>

\* lines 175-200
Report ==
  /\ pc = "report"
  /\ IF upgradedVersion = "[unknown]"
     THEN log' = log /\ commits' = commits
     ELSE IF upgradedVersion = currentVersion
     THEN log' = log \o <<"success:latest">> /\ commits' = commits
     ELSE IF currentVersion = "[unknown]"
     THEN log' = log \o <<"success:upgraded">> /\ commits' = commits
     ELSE \E commitA \in GitIdentifiers(currentVersion) :
          \E commitB \in GitIdentifiers(upgradedVersion) :
            /\ commits' = [mapped |-> TRUE, a |-> commitA, b |-> commitB]
            /\ log' = log \o (IF commitA # NoIdentifier /\ commitB # NoIdentifier
                              THEN <<"success:upgraded", "info:changelog">>
                              ELSE <<"success:upgraded">>)
  /\ pc' = "done"
  /\ exitCode' = "0"
  /\ UNCHANGED <<force, channel, flag, fs0, config, cleanupCall, fs, packageManager,
                 currentVersion, pkg, nuxtDependencyType, packagesToUpdate, npmPackages,
                 nuxtVersion, toRemove, lockFile, buildDir, upgradedVersion, installCall,
                 prompts>>

\* The run over every project directory and every lock-file descriptor.
Init == Start(InitialFs)

Next ==
  \/ DetectPackageManager(Detections)
  \/ ReadCurrentVersion
  \/ ReadManifest(Manifests)
  \/ ResolveVersion
  \/ LocateLockFile
  \/ DecideForce
  \/ RemoveTargets
  \/ TouchLockFile
  \/ Install
  \/ CleanBuildArtifacts
  \/ ReadUpgradedVersion
  \/ Report

Spec == Init /\ [][Next]_vars

\* The run over every manifest, in a project that has node_modules and the
\* lock file its package manager names.
ManifestFs ==
  {f \in InitialFs : /\ f[resolve(Cwd, "node_modules")] = "dir"
                     /\ f[resolve(Cwd, "bun.lock")] = "data"
                     /\ f[resolve(Cwd, "bun.lockb")] = "absent"}

ManifestPackageManagers ==
  {NoPackageManager,
   [found |-> TRUE, lockFile |-> [kind |-> "string", str |-> "bun.lock", arr |-> <<>>]]}

InitManifest == Start(ManifestFs)

NextManifest ==
  \/ DetectPackageManager(ManifestPackageManagers)
  \/ ReadCurrentVersion
  \/ ReadManifest(AllManifests)
  \/ ResolveVersion
  \/ LocateLockFile
  \/ DecideForce
  \/ RemoveTargets
  \/ TouchLockFile
  \/ Install
  \/ CleanBuildArtifacts
  \/ ReadUpgradedVersion
  \/ Report

SpecManifest == InitManifest /\ [][NextManifest]_vars

\* The run under its scheduling: run() is one async function on one event
\* loop, so as long as every awaited call and prompt settles, the step the
\* run stands at is taken.
SpecLive == Init /\ [][Next]_vars /\ WF_vars(Next)

\* getRequiredNewVersion alone, on every list of companion packages: the
\* run stands at line 117 with packagesToUpdate any list over corePackages.
PackageLists == {<<>>} \cup SeqsUpTo(Range(corePackages), MaxPackages)

InitResolve ==
  /\ pc = "resolve"
  /\ force = "false"
  /\ channel \in Channels
  /\ fs \in ManifestFs
  /\ packageManager \in ManifestPackageManagers /\ packageManager.found
  /\ currentVersion = "3.9.0"
  /\ pkg = NoManifest
  /\ nuxtDependencyType = "dependencies"
  /\ packagesToUpdate \in PackageLists
  /\ npmPackages = <<>>
  /\ nuxtVersion = ""
  /\ toRemove = <<>>
  /\ lockFile = Undefined
  /\ buildDir = ".nuxt"
  /\ upgradedVersion = "[unknown]"
  /\ installCall = NoInstall
  /\ config = "none"
  /\ cleanupCall = NoCleanup
  /\ commits = NoCommits
  /\ prompts = <<>>
  /\ flag = force
  /\ fs0 = fs
  /\ exitCode = "running"
  /\ log = <<"detectPackageManager", "getNuxtVersion", "readPackageJSON">>

NextResolve == ResolveVersion

SpecResolve == InitResolve /\ [][NextResolve]_vars

----------------------------------------------------------------------------
(* Properties of the run *)

Occurs(e) == \E i \in DOMAIN log : log[i] = e

Count(e) == Cardinality({i \in DOMAIN log : log[i] = e})

\* every occurrence of b in the log comes after an occurrence of a
Precedes(a, b) == \A i \in DOMAIN log : log[i] = b => \E j \in 1..(i - 1) : log[j] = a

\* the call e was made and rejected
Rejected(e) == \E i \in DOMAIN log : log[i] = e /\ i < Len(log) /\ log[i + 1] = "throw"

Mutations == {"rmRecursive", "touchFile", "addDependency"}

\* what steps 1-5 of the run log when they complete
Steps == {"detectPackageManager", "getNuxtVersion", "readPackageJSON",
          "getRequiredNewVersion", "normaliseLockFile", "if:force"}

Reports == {"success:latest", "success:upgraded", "info:changelog"}

ConfirmPrompts == {i \in DOMAIN prompts : prompts[i].type = "confirm"}

\* The candidate names of the detected descriptor, and whether none of them
\* was on disk when the run started.
CandidateNames ==
  IF packageManager.lockFile.kind = "string"
  THEN {packageManager.lockFile.str}
  ELSE Range(packageManager.lockFile.arr)

NoCandidateExists ==
  /\ Occurs("normaliseLockFile")
  /\ \A n \in CandidateNames : fs0[resolve(Cwd, n)] = "absent"

\* C1: no removal, no lock-file touch and no installation happens before
\* detection, the current-version read, the manifest read, version
\* resolution, lock-file location and the force decision have completed;
\* cleanupNuxtDirs is only ever invoked after addDependency returned.
C1_SideEffectsOrdered ==
  /\ \A i \in DOMAIN log :
       LET before == {log[j] : j \in 1..(i - 1)}
       IN /\ log[i] \in Mutations => Steps \subseteq before
          /\ log[i] = "cleanupNuxtDirs" => "addDependency:ok" \in before
  /\ installCall.called => packageManager.found
  /\ (~Occurs("if:force")) => fs = fs0

C1_Witness ==
  /\ pc = "done"
  /\ Occurs("rmRecursive") /\ Occurs("touchFile")
  /\ Occurs("addDependency:ok") /\ Occurs("cleanupNuxtDirs")

\* C2: when no package manager is detected the run reports an error and
\* exits with status 1, having shown no prompt and called none of
\* rmRecursive, touchFile, addDependency, cleanupNuxtDirs.
C2_NoPackageManagerExits ==
  (Occurs("detectPackageManager") /\ ~packageManager.found) =>
     /\ pc = "exited"
     /\ exitCode = "1"
     /\ log = <<"detectPackageManager", "consola.error:pm", "process.exit">>
     /\ prompts = <<>>
     /\ fs = fs0
     /\ ~installCall.called

C2_Witness == pc = "exited" /\ ~packageManager.found /\ flag = Undefined /\ channel = "nightly"

LockFilesUntouched == \A n \in LockNames : fs[resolve(Cwd, n)] = fs0[resolve(Cwd, n)]

NodeModules == resolve(Cwd, "node_modules")

C4_MissingLockFileDoesNotAbort ==
  NoCandidateExists =>
    /\ Occurs("consola.error:lock")
    /\ toRemove = <<"node_modules">>
    /\ ~Occurs("touchFile")
    /\ pc # "exited"
    /\ pc = "aborted" => Rejected("rmRecursive") \/ Rejected("addDependency")
    /\ pc = "done" =>
         /\ Occurs("addDependency:ok")
         /\ Occurs("cleanupNuxtDirs")
         /\ Count("getNuxtVersion") = 2

C4_Witness ==
  /\ NoCandidateExists
  /\ packageManager.lockFile.kind = "array"
  /\ pc = "done"
  /\ Occurs("rmRecursive")
  /\ Occurs("success:upgraded")

\* C5 as claimed: the installer gets the development flag exactly when the
\* manifest is present and lists nuxt under devDependencies and not under
\* dependencies.
C5_DevFlagIffDevOnly ==
  installCall.called =>
    (installCall.dev <=>
       /\ pkg.present
       /\ "nuxt" \in DOMAIN pkg.devDependencies
       /\ "nuxt" \notin DOMAIN pkg.dependencies)

\* C6: with the force flag given the confirm prompt is never shown and the
\* flag is the decision; with the flag absent the confirm prompt is shown
\* exactly once, with default yes, before any removal.
C6_PromptOnlyWhenFlagAbsent ==
  /\ flag # Undefined =>
       /\ ConfirmPrompts = {}
       /\ ~Occurs("prompt:confirm")
       /\ force = flag
       /\ Occurs("if:force") /\ pc # "rm" => (Occurs("rmRecursive") <=> flag = "true")
  /\ flag = Undefined =>
       IF Occurs("if:force")
       THEN /\ Cardinality(ConfirmPrompts) = 1
            /\ Count("prompt:confirm") = 1
            /\ \A i \in ConfirmPrompts :
                 prompts[i].default = "true" /\ force = prompts[i].result
            /\ Precedes("prompt:confirm", "rmRecursive")
       ELSE ConfirmPrompts = {} /\ force = Undefined /\ ~Occurs("prompt:confirm")

C6_Witness ==
  /\ flag = Undefined
  /\ pc = "done"
  /\ Occurs("rmRecursive")
  /\ \E i \in ConfirmPrompts : prompts[i].answer = "yes"

\* C7 as claimed: with the flag absent, rmRecursive and touchFile are called
\* only when the human answered yes; after any other outcome of the prompt
\* the project directory is as it was until the installer runs.
C7_OnlyYesRemoves ==
  flag = Undefined =>
    \A i \in ConfirmPrompts :
      prompts[i].answer # "yes" =>
        /\ ~Occurs("rmRecursive")
        /\ ~Occurs("touchFile")
        /\ ~Occurs("addDependency") => fs = fs0

\* The force reset of lines 144-147 applied to a directory: every target is
\* removed, then the lock file (if one was located) is touched.
ResetApplied(f) ==
  LET removed == rmRecursive(f, {resolve(Cwd, file) : file \in Range(toRemove)}, {}, {})
  IN IF lockFile # Undefined THEN touchFile(removed, resolve(Cwd, lockFile)) ELSE removed

\* C8: the force reset does not fail on a target that does not exist; after
\* it and before the installation node_modules does not exist and the
\* located lock file is an empty file; a second reset changes nothing.
C8_ForceResetIdempotent ==
  /\ Rejected("rmRecursive") =>
       \E file \in Range(toRemove) : existsSync(fs0, resolve(Cwd, file))
  /\ (pc = "install" /\ Truthy(force)) =>
       /\ fs[NodeModules] = "absent"
       /\ lockFile # Undefined => fs[resolve(Cwd, lockFile)] = "empty"
       /\ ResetApplied(fs) = fs

C8_Witness ==
  /\ pc = "install"
  /\ Truthy(force)
  /\ fs0[NodeModules] = "absent"
  /\ lockFile # Undefined
  /\ fs[resolve(Cwd, lockFile)] = "empty"

\* C9: when the removal of a force-reset target fails the run aborts:
\* nothing is touched, installed or cleaned up afterwards and no report is
\* printed; a removal that returns has removed every target.
C9_RemovalFailureAborts ==
  /\ Rejected("rmRecursive") =>
       /\ pc = "aborted"
       /\ exitCode = "1"
       /\ log[Len(log)] = "throw"
       /\ ~Occurs("touchFile")
       /\ ~installCall.called /\ ~Occurs("addDependency")
       /\ ~Occurs("cleanupNuxtDirs")
       /\ \A r \in Reports : ~Occurs(r)
  /\ (Occurs("rmRecursive") /\ ~Rejected("rmRecursive") /\ ~Occurs("touchFile")
        /\ ~Occurs("addDependency")) =>
       \A file \in Range(toRemove) : ~existsSync(fs, resolve(Cwd, file))

C9_Witness ==
  /\ Rejected("rmRecursive")
  /\ pc = "aborted"
  /\ fs # fs0
  /\ \E file \in Range(toRemove) : existsSync(fs, resolve(Cwd, file))

\* C10: when the installer fails the run stops there: it is not called
\* again, cleanupNuxtDirs is not called, the upgraded version is not read
\* and no report is printed.
C10_InstallFailureAborts ==
  /\ Count("addDependency") <= 1
  /\ (Occurs("addDependency") /\ ~Occurs("addDependency:ok")) =>
       /\ pc = "aborted"
       /\ exitCode = "1"
       /\ log[Len(log)] = "throw"
       /\ log[Len(log) - 1] = "addDependency"
       /\ ~Occurs("cleanupNuxtDirs")
       /\ Count("getNuxtVersion") = 1
       /\ upgradedVersion = "[unknown]"
       /\ \A r \in Reports : ~Occurs(r)

C10_Witness ==
  /\ Rejected("addDependency")
  /\ pc = "aborted"
  /\ Occurs("touchFile")

\* The run got past cleaning the build artifacts.
PastCleanup == pc \in {"upgradedVersion", "report", "done"}

C12_CleanupDirectory ==
  /\ PastCleanup =>
       /\ Count("cleanupNuxtDirs") = 1
       /\ Precedes("addDependency:ok", "cleanupNuxtDirs")
       /\ cleanupCall.called
       /\ config \in ConfigOutcomes
       /\ cleanupCall.dir = (IF config \in ConfigFailures THEN ".nuxt" ELSE config)
       /\ Occurs("catch") <=> config \in ConfigFailures
  /\ ~Occurs("addDependency:ok") => ~cleanupCall.called /\ ~Occurs("cleanupNuxtDirs")
  /\ config \in ConfigFailures => pc # "aborted"

C12_Witness ==
  /\ pc = "done"
  /\ config = "loadKit:throw"
  /\ cleanupCall.dir = ".nuxt"
  /\ Count("cleanupNuxtDirs") = 1

\* C13: the report has exactly one outcome for each pair of versions: nothing
\* at all when the upgraded version is unknown; "already using the latest"
\* alone when the two strings are equal; otherwise one success report, the
\* two commits looked up exactly when the previous version is known, and the
\* changelog exactly when both of them map.  Nothing is reported before.
C13_ReportOutcome ==
  /\ pc # "done" => ~commits.mapped /\ \A i \in DOMAIN log : log[i] \notin Reports
  /\ pc = "done" =>
       LET latest == Count("success:latest")
           upgraded == Count("success:upgraded")
           changelog == Count("info:changelog")
       IN  IF upgradedVersion = "[unknown]"
           THEN latest = 0 /\ upgraded = 0 /\ changelog = 0 /\ ~commits.mapped
           ELSE IF upgradedVersion = currentVersion
           THEN latest = 1 /\ upgraded = 0 /\ changelog = 0 /\ ~commits.mapped
           ELSE /\ latest = 0
                /\ upgraded = 1
                /\ changelog <= 1
                /\ commits.mapped <=> currentVersion # "[unknown]"
                /\ changelog = 1 <=>
                     /\ currentVersion # "[unknown]"
                     /\ commits.a # NoIdentifier
                     /\ commits.b # NoIdentifier

\* an upgrade from a known version whose old commit does not map: no link
C13_Witness ==
  /\ pc = "done"
  /\ currentVersion = "3.9.0"
  /\ upgradedVersion = "3.10.0"
  /\ commits.mapped
  /\ commits.a = NoIdentifier
  /\ commits.b # NoIdentifier
  /\ ~Occurs("info:changelog")
  /\ Occurs("success:upgraded")

\* The lock file has been looked for.
Located == pc \notin {"detect", "exited", "currentVersion", "manifest", "resolve", "lockFile"}

\* The candidates of the detected package manager as a list, a single name
\* being a list of one.
CandidateList ==
  CASE packageManager.lockFile.kind = "string" -> <<packageManager.lockFile.str>>
    [] packageManager.lockFile.kind = "array" -> packageManager.lockFile.arr
    [] OTHER -> <<>>

\* C14: the lock file located is the first candidate, in the order given,
\* whose file exists in the project (whatever else exists); a single name
\* counts as a list of one; it is undefined exactly when there is no list or
\* no candidate exists.
C14_FirstExistingCandidate ==
  Located =>
    LET list == CandidateList
        exists(i) == fs0[resolve(Cwd, list[i])] # "absent"
    IN IF \E i \in DOMAIN list : exists(i)
       THEN \E i \in DOMAIN list :
              /\ lockFile = list[i]
              /\ exists(i)
              /\ \A j \in 1..(i - 1) : ~exists(j)
       ELSE lockFile = Undefined

\* two different candidates, both on disk: the first one wins
C14_Witness ==
  /\ Located
  /\ Len(CandidateList) = 2
  /\ CandidateList[1] # CandidateList[2]
  /\ \A i \in 1..2 : fs0[resolve(Cwd, CandidateList[i])] # "absent"
  /\ lockFile = CandidateList[1]

\* The select prompts the run has shown.
SelectPrompts == {i \in DOMAIN prompts : prompts[i].type = "select"}

\* The nightly line of a run that resolved on the nightly channel: what the
\* prompt gave if it gave one of the two lines, 3.x otherwise.
ChosenLine ==
  LET result == prompts[CHOOSE i \in SelectPrompts : TRUE].result
  IN IF result \in {"3.x", "4.x"} THEN result ELSE "3.x"

\* C15: the resolver gives one specifier per name, in the order of the names
\* (nuxt first, then the companions).  On the nightly channel one select
\* prompt is shown and every specifier is <name>@npm:<name>-nightly@<tag>
\* with the tag of the line chosen (3x for 3.x, latest for 4.x), 3.x when
\* the prompt gave no line; on any other channel no prompt is shown and
\* every specifier is <name>@latest.
C15_SpecifierPerName ==
  pc = "lockFile" =>
    LET names == <<"nuxt">> \o packagesToUpdate
    IN /\ DOMAIN npmPackages = DOMAIN names
       /\ IF channel = "nightly"
          THEN /\ Cardinality(SelectPrompts) = 1
               /\ nuxtVersion = ChosenLine
               /\ LET tag == IF ChosenLine = "3.x" THEN "3x" ELSE "latest"
                  IN \A i \in DOMAIN names :
                       npmPackages[i] = <<names[i], "@npm:", names[i], "-nightly@", tag>>
          ELSE /\ SelectPrompts = {}
               /\ \A i \in DOMAIN names : npmPackages[i] = <<names[i], "@latest">>

\* two different companions, nightly, the prompt cancelled: the 3.x tag
C15_Witness ==
  /\ pc = "lockFile"
  /\ channel = "nightly"
  /\ Len(packagesToUpdate) = 2
  /\ packagesToUpdate[1] # packagesToUpdate[2]
  /\ prompts[1].answer = "cancel"
  /\ npmPackages[3] = <<packagesToUpdate[2], "@npm:", packagesToUpdate[2], "-nightly@", "3x">>

\* The paths the force reset is to remove, from what was located.
ResetTargets ==
  {NodeModules} \cup (IF lockFile = Undefined THEN {} ELSE {resolve(Cwd, lockFile)})

C17_ClassKeptPerPackage ==
  installCall.called =>
    /\ \A i \in DOMAIN installCall.packages :
         LET name == installCall.packages[i][1]
         IN /\ name \in DOMAIN pkg.dependencies => ~installCall.dev
            /\ name \in DOMAIN pkg.devDependencies \ DOMAIN pkg.dependencies =>
                 installCall.dev
    /\ ~pkg.present =>
         /\ packagesToUpdate = <<>>
         /\ Len(installCall.packages) = 1
         /\ installCall.packages[1][1] = "nuxt"

\* The step of the orchestrator a position belongs to: 1 detection,
\* 2 current version, 3 manifest, 4 resolution, 5 lock file and force reset,
\* 6 install, 7 cleanup, 8 upgraded version, 9 report, 10 the run is over.
StepOf(p) ==
  CASE p = "detect" -> 1
    [] p = "currentVersion" -> 2
    [] p = "manifest" -> 3
    [] p = "resolve" -> 4
    [] p \in {"lockFile", "force", "rm", "touch"} -> 5
    [] p = "install" -> 6
    [] p = "cleanup" -> 7
    [] p = "upgradedVersion" -> 8
    [] p = "report" -> 9
    [] OTHER -> 10

\* The place of a position within step 5.
PartOf(p) ==
  CASE p = "force" -> 2
    [] p = "rm" -> 3
    [] p = "touch" -> 4
    [] OTHER -> 1

Terminal == {"exited", "aborted", "done"}

\* C18: every move of the run goes to a later step, or to a later part of
\* step 5, so no step is entered twice and none follows a later one; a run
\* that is over stays over with its exit code; and every run ends: at the
\* exit of a failed detection, at an abort, or at the end of the report.
C18_LinearAndTerminates ==
  /\ [][/\ StepOf(pc') >= StepOf(pc)
        /\ StepOf(pc') = StepOf(pc) => PartOf(pc') > PartOf(pc)
        /\ pc \notin Terminal]_vars
  /\ <>(pc \in Terminal)
  /\ [](pc \in Terminal <=> exitCode # "running")
  /\ [](pc = "exited" => Occurs("process.exit") /\ exitCode = "1")
  /\ [](pc = "done" => Count("getNuxtVersion") = 2 /\ exitCode = "0")

\* a run that went through all nine steps, the reset included
C18_Witness ==
  /\ pc = "done"
  /\ Occurs("touchFile")
  /\ Occurs("prompt:select")
  /\ Occurs("prompt:confirm")
  /\ Occurs("info:changelog")

====
